---- MODULE Spec2Model ----
(***************************************************************************)
(* Model of the hecs entity/component store: World (src/src/lib.rs) and    *)
(* EntityBuilder / BuiltEntity (src/src/entity_builder.rs).  The archetype *)
(* module (mod archetype) is not part of the sources at hand; its          *)
(* operations are modelled from the specification's section 4.2.           *)
(*                                                                         *)
(* Ids, rows and archetype indices are 0-based as in the code; TLA+        *)
(* sequences are 1-based, so entry i of a Vec is element i+1 of a sequence.*)
(***************************************************************************)
EXTENDS Integers, Sequences, FiniteSets, TLC

\* ---- bounds of the model ------------------------------------------------
MaxEntities == 3        \* spawn calls per behaviour
MaxDespawns == 2        \* despawn calls that return true per behaviour
MaxAdds == 3            \* add calls per behaviour

\* ---- component types ----------------------------------------------------
\* i32, &'static str and a 48 byte array, [u64; 6]
Types == {"i32", "str", "arr"}
NoType == "none"

\* The caller tags every value it passes: the n-th spawn call passes
\* ValueOf(n, T) as its component of type T in a tuple, and the k-th add call
\* stages the value k, so that a value read back tells which call it came
\* from.
TypeTag(T) == CASE T = "i32" -> 0 [] T = "str" -> 1 [] OTHER -> 2
ValueOf(n, T) == 3 * n - TypeTag(T)
\* bytes that are no value any caller passed
Garbage == 0

VARIABLES
    entities,         \* World.entities : Vec<EntityMeta>
    free,             \* World.free : Vec<u32>
    archetypes,       \* World.archetypes : Vec<Archetype>
    archetype_index,  \* World.archetype_index : map Vec<TypeId> -> usize
    ret,              \* the last call and what it returned
    spawned,          \* history: one record per spawn call, in call order
    despawned,        \* history: one record per handle for which despawn has
                      \* returned true: the handle, the number of spawn calls
                      \* made before the first such return, and how many
                      \* times despawn has returned true for it
    storage,          \* EntityBuilder.storage : the arena (address, length,
                      \* and the values whose bytes it holds)
    cursor,           \* EntityBuilder.cursor : *mut u8, as an address
    max_align,        \* EntityBuilder.max_align
    info,             \* EntityBuilder.info : Vec<(TypeInfo, *mut u8)>
    ids,              \* EntityBuilder.ids : Vec<TypeId>
    built,            \* a BuiltEntity borrows the builder
    staged,           \* history: one record per add call, in call order: the
                      \* type, and how often the value was moved into a row
                      \* and how often it was destructed
    pending           \* history: the values added since the entry list was
                      \* last drained (a value is the number of its add call)

worldVars == <<entities, free, archetypes, archetype_index>>
histVars == <<ret, spawned, despawned>>
builderVars == <<storage, cursor, max_align, info, ids, built, staged, pending>>
vars == <<entities, free, archetypes, archetype_index, ret, spawned, despawned,
          storage, cursor, max_align, info, ids, built, staged, pending>>

\* ---- helpers ------------------------------------------------------------
Last(s) == s[Len(s)]
Front(s) == SubSeq(s, 1, Len(s) - 1)
Range(s) == {s[i] : i \in DOMAIN s}

\* What a read, as a T, of memory that holds no live T may produce: some T
\* written earlier whose bytes are still there, or other bytes.
Indeterminate(T) ==
    {Garbage} \cup UNION {{c.val : c \in {x \in Range(spawned[n].components) : x.ty = T}} :
                            n \in DOMAIN spawned}

\* Entity { generation, id }
Entity(g, i) == [generation |-> g, id |-> i]
\* EntityMeta { generation, archetype, index }
EntityMeta(g, a, r) == [generation |-> g, archetype |-> a, index |-> r]

\* ---- fixed-arity tuple bundles (tuple_impl!) ----------------------------
\* A tuple bundle is the sequence of its elements, each a typed value.
\* ComponentSet::elements: the TypeId of each element, in tuple order.
elements(components) == [i \in DOMAIN components |-> components[i].ty]
\* ComponentSet::info: the TypeInfo of each element, in tuple order.
type_info(components) == [i \in DOMAIN components |-> components[i].ty]

\* the component types callers ask get / get_mut for
GetTypes == {"i32", "str"}
TupleSigs == {<<"i32">>, <<"i32", "str">>, <<"str", "i32">>}
TupleBundle(sig, n) == [i \in DOMAIN sig |-> [ty |-> sig[i], val |-> ValueOf(n, sig[i])]]

\* ---- archetype (section 4.2 of the specification) -----------------------
\* types: the column types; rows: the dense rows, each the entity id of the
\* row->entity array and the row's value in every column.
ArchetypeNew(tys) == [types |-> tys, rows |-> <<>>]

\* allocate(entity_id): reserves the next row and returns its index
ArchetypeAllocateRow(a) == Len(a.rows)
ArchetypeAllocate(a, id) ==
    [a EXCEPT !.rows = Append(@, [entity |-> id,
                                  data |-> [t \in Range(a.types) |-> Garbage]])]

\* ComponentSet::store for a tuple: each element is written to the column
\* of its type, in tuple order.  The result maps each type written to the
\* value its column ends up with.
RECURSIVE TupleWrite(_, _, _)
TupleWrite(data, components, i) ==
    IF i > Len(components) THEN data
    ELSE TupleWrite([data EXCEPT ![components[i].ty] = components[i].val],
                    components, i + 1)
TupleStore(components) ==
    TupleWrite([t \in Range(elements(components)) |-> Garbage], components, 1)

\* store / put_dynamic: the bundle's values are written to their columns at
\* the row just allocated
ArchetypeStore(a, data) ==
    [a EXCEPT !.rows[Len(a.rows)].data =
        [t \in DOMAIN @ |-> IF t \in DOMAIN data THEN data[t] ELSE @[t]]]

\* get / get_mut(row): the rows a read of column T at `row` may yield.  The
\* reference design trusts the caller: a row past the row count or a type
\* that is no column of the archetype is undefined behaviour, modelled as an
\* indeterminate value.
ArchetypeGet(a, T, row) ==
    IF T \in Range(a.types) /\ row < Len(a.rows)
    THEN {a.rows[row + 1].data[T]}
    ELSE Indeterminate(T)

\* remove(row): the archetypes that may result.  In range: the last row is
\* moved into `row` (together with its row->entity entry) and the row count
\* drops by one.  Out of range: undefined behaviour.
ArchetypeRemove(a, row) ==
    IF row < Len(a.rows)
    THEN {[a EXCEPT !.rows =
             IF row + 1 = Len(a.rows) THEN Front(a.rows)
             ELSE Front([a.rows EXCEPT ![row + 1] = Last(a.rows)])]}
    ELSE {a} \cup (IF a.rows = <<>> THEN {} ELSE {[a EXCEPT !.rows = Front(@)]})

\* ---- World --------------------------------------------------------------
NoRet == [op |-> "new", e |-> Entity(0, 0), ty |-> NoType, ok |-> FALSE, val |-> Garbage]

\* World::new
Init ==
    /\ entities = <<>>
    /\ free = <<>>
    /\ archetypes = <<>>
    /\ archetype_index = <<>>
    /\ ret = NoRet
    /\ spawned = <<>>
    /\ despawned = {}
    /\ storage = [base |-> 1, len |-> 0, cells |-> {}]
    /\ cursor = 0
    /\ max_align = 16
    /\ info = <<>>
    /\ ids = <<>>
    /\ built = FALSE
    /\ staged = <<>>
    /\ pending = <<>>

\* handles returned by spawn so far
Handles == {spawned[i].e : i \in DOMAIN spawned}
\* handles for which despawn has returned true
Dead == {d.e : d \in despawned}
\* handles returned by spawn and not yet successfully despawned
Live == Handles \ Dead

\* spawn that registers a new archetype whether or not the key is known
SpawnWithAlwaysVacant(key, tinfo, data, components) ==
    LET reuse == free # <<>>
        i == IF reuse THEN Last(free) ELSE Len(entities)
        entity == Entity(IF reuse THEN entities[i + 1].generation ELSE 0, i)
        ents1 == IF reuse THEN entities
                 ELSE Append(entities, EntityMeta(0, 0, 0))
        vacant == TRUE
        archs1 == IF vacant
                  THEN Append(archetypes, ArchetypeNew(tinfo))
                  ELSE archetypes
        archetype == IF vacant THEN Len(archs1) - 1 ELSE archetype_index[key]
        a == archs1[archetype + 1]
    IN  /\ Len(spawned) < MaxEntities
        /\ free' = IF reuse THEN Front(free) ELSE free
        /\ archetype_index' =
             IF vacant
             THEN [k \in DOMAIN archetype_index \cup {key} |->
                     IF k = key THEN archetype ELSE archetype_index[k]]
             ELSE archetype_index
        /\ entities' = [ents1 EXCEPT ![i + 1].index = ArchetypeAllocateRow(a)]
        /\ archetypes' = [archs1 EXCEPT ![archetype + 1] =
                            ArchetypeStore(ArchetypeAllocate(a, i), data)]
        /\ ret' = [op |-> "spawn", e |-> entity, ty |-> NoType, ok |-> TRUE,
                   val |-> Garbage]
        /\ spawned' = Append(spawned, [e |-> entity, components |-> components])
        /\ UNCHANGED despawned

\* spawn that binds a fresh entity to the last slot of the meta array
SpawnWithLastSlot(key, tinfo, data, components) ==
    LET reuse == free # <<>>
        i == IF reuse THEN Last(free)
             ELSE IF entities = <<>> THEN 0 ELSE Len(entities) - 1
        entity == Entity(IF reuse THEN entities[i + 1].generation ELSE 0, i)
        ents1 == IF reuse \/ entities # <<>> THEN entities
                 ELSE Append(entities, EntityMeta(0, 0, 0))
        vacant == key \notin DOMAIN archetype_index
        archs1 == IF vacant
                  THEN Append(archetypes, ArchetypeNew(tinfo))
                  ELSE archetypes
        archetype == IF vacant THEN Len(archs1) - 1 ELSE archetype_index[key]
        a == archs1[archetype + 1]
    IN  /\ Len(spawned) < MaxEntities
        /\ free' = IF reuse THEN Front(free) ELSE free
        /\ archetype_index' =
             IF vacant
             THEN [k \in DOMAIN archetype_index \cup {key} |->
                     IF k = key THEN archetype ELSE archetype_index[k]]
             ELSE archetype_index
        /\ entities' = [ents1 EXCEPT ![i + 1].index = ArchetypeAllocateRow(a)]
        /\ archetypes' = [archs1 EXCEPT ![archetype + 1] =
                            ArchetypeStore(ArchetypeAllocate(a, i), data)]
        /\ ret' = [op |-> "spawn", e |-> entity, ty |-> NoType, ok |-> TRUE,
                   val |-> Garbage]
        /\ spawned' = Append(spawned, [e |-> entity, components |-> components])
        /\ UNCHANGED despawned

\* World::spawn, for a bundle given by what its three operations yield: the
\* type-identity sequence `key`, the type descriptors `tinfo` and the values
\* `data` its store writes to the columns of the row; `components` is what
\* the caller passed, for the history.
SpawnWith(key, tinfo, data, components) ==
    LET reuse == free # <<>>
        i == IF reuse THEN Last(free) ELSE Len(entities)
        entity == Entity(IF reuse THEN entities[i + 1].generation ELSE 0, i)
        ents1 == IF reuse THEN entities
                 ELSE Append(entities, EntityMeta(0, 0, 0))
        vacant == key \notin DOMAIN archetype_index
        archs1 == IF vacant
                  THEN Append(archetypes, ArchetypeNew(tinfo))
                  ELSE archetypes
        archetype == IF vacant THEN Len(archs1) - 1 ELSE archetype_index[key]
        a == archs1[archetype + 1]
    IN  /\ Len(spawned) < MaxEntities
        /\ free' = IF reuse THEN Front(free) ELSE free
        /\ archetype_index' =
             IF vacant
             THEN [k \in DOMAIN archetype_index \cup {key} |->
                     IF k = key THEN archetype ELSE archetype_index[k]]
             ELSE archetype_index
        /\ entities' = [ents1 EXCEPT ![i + 1].index = ArchetypeAllocateRow(a)]
        /\ archetypes' = [archs1 EXCEPT ![archetype + 1] =
                            ArchetypeStore(ArchetypeAllocate(a, i), data)]
        /\ ret' = [op |-> "spawn", e |-> entity, ty |-> NoType, ok |-> TRUE,
                   val |-> Garbage]
        /\ spawned' = Append(spawned, [e |-> entity, components |-> components])
        /\ UNCHANGED despawned

\* World::spawn of a fixed-arity tuple
Spawn(components) ==
    SpawnWith(elements(components), type_info(components),
              TupleStore(components), components)

\* self.entities[entity.id as usize] with the id out of bounds: the indexing
\* panics before anything is read or written
OutOfBounds(entity) == entity.id >= Len(entities)
Panic(entity, T) ==
    /\ ret' = [op |-> "panic", e |-> entity, ty |-> T, ok |-> FALSE, val |-> Garbage]
    /\ UNCHANGED <<worldVars, spawned, despawned>>

\* the despawn history after despawn(entity) has returned true
Despawned(entity) ==
    IF \E d \in despawned : d.e = entity
    THEN {IF d.e = entity THEN [d EXCEPT !.times = @ + 1] ELSE d : d \in despawned}
    ELSE despawned \cup {[e |-> entity, n |-> Len(spawned), times |-> 1]}

\* despawn that leaves the stored generation as it is
DespawnKeepsGeneration(entity) ==
    IF OutOfBounds(entity) THEN Panic(entity, NoType)
    ELSE
    LET meta == entities[entity.id + 1]
    IN  IF meta.generation # entity.generation
        THEN /\ ret' = [op |-> "despawn", e |-> entity, ty |-> NoType,
                        ok |-> FALSE, val |-> Garbage]
             /\ UNCHANGED <<worldVars, spawned, despawned>>
        ELSE /\ \E a \in ArchetypeRemove(archetypes[meta.archetype + 1], meta.index) :
                   archetypes' = [archetypes EXCEPT ![meta.archetype + 1] = a]
             /\ ret' = [op |-> "despawn", e |-> entity, ty |-> NoType,
                        ok |-> TRUE, val |-> Garbage]
             /\ despawned' = Despawned(entity)
             /\ UNCHANGED <<entities, free, archetype_index, spawned>>

\* despawn that advances the stored generation before comparing it
DespawnBumpsFirst(entity) ==
    IF OutOfBounds(entity) THEN Panic(entity, NoType)
    ELSE
    LET meta == entities[entity.id + 1]
    IN  IF meta.generation # entity.generation
        THEN /\ ret' = [op |-> "despawn", e |-> entity, ty |-> NoType,
                        ok |-> FALSE, val |-> Garbage]
             /\ entities' = [entities EXCEPT ![entity.id + 1].generation = @ + 1]
             /\ UNCHANGED <<free, archetypes, archetype_index, spawned, despawned>>
        ELSE /\ entities' = [entities EXCEPT ![entity.id + 1].generation = @ + 1]
             /\ \E a \in ArchetypeRemove(archetypes[meta.archetype + 1], meta.index) :
                   archetypes' = [archetypes EXCEPT ![meta.archetype + 1] = a]
             /\ ret' = [op |-> "despawn", e |-> entity, ty |-> NoType,
                        ok |-> TRUE, val |-> Garbage]
             /\ despawned' = Despawned(entity)
             /\ UNCHANGED <<free, archetype_index, spawned>>

\* World::despawn
Despawn(entity) ==
    IF OutOfBounds(entity) THEN Panic(entity, NoType)
    ELSE
    LET meta == entities[entity.id + 1]
    IN  IF meta.generation # entity.generation
        THEN /\ ret' = [op |-> "despawn", e |-> entity, ty |-> NoType,
                        ok |-> FALSE, val |-> Garbage]
             /\ UNCHANGED <<worldVars, spawned, despawned>>
        ELSE /\ \E a \in ArchetypeRemove(archetypes[meta.archetype + 1], meta.index) :
                   archetypes' = [archetypes EXCEPT ![meta.archetype + 1] = a]
             /\ entities' = [entities EXCEPT ![entity.id + 1].generation = @ + 1]
             /\ ret' = [op |-> "despawn", e |-> entity, ty |-> NoType,
                        ok |-> TRUE, val |-> Garbage]
             /\ despawned' = Despawned(entity)
             /\ UNCHANGED <<free, archetype_index, spawned>>

\* get that skips the generation comparison
GetIgnoresGeneration(entity, T) ==
    IF OutOfBounds(entity) THEN Panic(entity, T)
    ELSE
    LET meta == entities[entity.id + 1]
    IN  /\ \E v \in ArchetypeGet(archetypes[meta.archetype + 1], T, meta.index) :
               ret' = [op |-> "get", e |-> entity, ty |-> T, ok |-> TRUE, val |-> v]
        /\ UNCHANGED <<worldVars, spawned, despawned>>

\* World::get
Get(entity, T) ==
    IF OutOfBounds(entity) THEN Panic(entity, T)
    ELSE
    LET meta == entities[entity.id + 1]
    IN  /\ IF meta.generation # entity.generation
           THEN ret' = [op |-> "get", e |-> entity, ty |-> T, ok |-> FALSE,
                        val |-> Garbage]
           ELSE \E v \in ArchetypeGet(archetypes[meta.archetype + 1], T, meta.index) :
                   ret' = [op |-> "get", e |-> entity, ty |-> T, ok |-> TRUE,
                           val |-> v]
        /\ UNCHANGED <<worldVars, spawned, despawned>>

\* World::get_mut
GetMut(entity, T) ==
    IF OutOfBounds(entity) THEN Panic(entity, T)
    ELSE
    LET meta == entities[entity.id + 1]
    IN  /\ IF meta.generation # entity.generation
           THEN ret' = [op |-> "get_mut", e |-> entity, ty |-> T, ok |-> FALSE,
                        val |-> Garbage]
           ELSE \E v \in ArchetypeGet(archetypes[meta.archetype + 1], T, meta.index) :
                   ret' = [op |-> "get_mut", e |-> entity, ty |-> T, ok |-> TRUE,
                           val |-> v]
        /\ UNCHANGED <<worldVars, spawned, despawned>>

DoSpawn ==
    /\ \E sig \in TupleSigs : Spawn(TupleBundle(sig, Len(spawned) + 1))
    /\ UNCHANGED builderVars
DoDespawn ==
    /\ \E entity \in Handles :
          /\ entity \in Live => Cardinality(despawned) < MaxDespawns
          /\ Despawn(entity)
    /\ UNCHANGED builderVars
DoGet ==
    /\ \E entity \in Handles, T \in GetTypes : Get(entity, T)
    /\ UNCHANGED builderVars
DoGetMut ==
    /\ \E entity \in Handles, T \in GetTypes : GetMut(entity, T)
    /\ UNCHANGED builderVars

Next == DoSpawn \/ DoDespawn \/ DoGet \/ DoGetMut

Spec == Init /\ [][Next]_vars

\* ---- calls with handles that are stale or were never issued -------------
\* Handles this World never returned: ids up to the first unallocated one,
\* generations 0 and 1.
ForeignHandles ==
    {Entity(g, i) : g \in 0..1, i \in 0..Len(entities)} \ Handles

DoDespawnForeign ==
    /\ Cardinality(despawned) < MaxDespawns
    /\ \E entity \in ForeignHandles : Despawn(entity)
    /\ UNCHANGED builderVars
DoGetForeign ==
    /\ \E entity \in ForeignHandles, T \in GetTypes : Get(entity, T)
    /\ UNCHANGED builderVars
DoGetMutForeign ==
    /\ \E entity \in ForeignHandles, T \in GetTypes : GetMut(entity, T)
    /\ UNCHANGED builderVars
DoGetStale ==
    /\ \E entity \in Dead, T \in GetTypes : Get(entity, T)
    /\ UNCHANGED builderVars
DoGetMutStale ==
    /\ \E entity \in Dead, T \in GetTypes : GetMut(entity, T)
    /\ UNCHANGED builderVars

\* calls with handles that were never issued, between spawns and despawns
NextForeign ==
    \/ DoSpawn \/ DoDespawn
    \/ DoDespawnForeign \/ DoGetForeign \/ DoGetMutForeign

SpecForeign == Init /\ [][NextForeign]_vars

\* reads through stale handles, between spawns and despawns
NextStale == DoSpawn \/ DoDespawn \/ DoGetStale \/ DoGetMutStale

SpecStale == Init /\ [][NextStale]_vars

\* ---- EntityBuilder ------------------------------------------------------
\* mem::size_of::<T>() and mem::align_of::<T>() on a 64-bit target
size_of(T) == CASE T = "i32" -> 4 [] T = "str" -> 16 [] T = "arr" -> 48
align_of(T) == CASE T = "i32" -> 4 [] T = "str" -> 8 [] T = "arr" -> 8

\* The canonical order of type descriptors (Ord for TypeInfo): a pure function
\* of the type; larger alignment first, then the type identity.
TypeRank(T) == CASE T = "arr" -> 1 [] T = "str" -> 2 [] T = "i32" -> 3
TypeInfoLess(x, y) == TypeRank(x) < TypeRank(y)

Max(x, y) == IF x >= y THEN x ELSE y

\* usize::next_power_of_two
RECURSIVE PowerOfTwoFrom(_, _)
PowerOfTwoFrom(p, n) == IF p >= n THEN p ELSE PowerOfTwoFrom(2 * p, n)
next_power_of_two(n) == PowerOfTwoFrom(1, n)

\* (addr & !(align - 1)), align a power of two
AlignDown(addr, align) == addr - (addr % align)

\* the smallest arena grow allocates
MinArenaLen == 64

\* The addresses alloc may return; every one satisfies any alignment asked.
ArenaBases == {1024, 2048}
\* alloc returns a region that overlaps no live allocation
AllocChoices(st, len) ==
    {b \in ArenaBases : st.len = 0 \/ b + len <= st.base \/ st.base + st.len <= b}

\* grow by just what is asked for
GrowLenExact(st, min_increment) ==
    Max(st.len + min_increment, MinArenaLen)

\* the new length grow computes
GrowLen(st, min_increment) ==
    Max(Max(next_power_of_two(st.len + min_increment), st.len * 2), MinArenaLen)

\* EntityBuilder::grow, the allocation landing at `base`: the arena and the
\* cursor it leaves.  The old bytes are copied to the tail of the new region;
\* the old region is freed when the new one replaces it.
Grow(st, min_increment, base) ==
    LET new_len == GrowLen(st, min_increment)
        tail == base + (new_len - st.len)
    IN  [storage |-> [base |-> base, len |-> new_len,
                      cells |-> {[c EXCEPT !.at = tail + (@ - st.base)] :
                                   c \in st.cells}],
         cursor |-> tail]

\* EntityBuilder::add::<T>(component), component being the value `v`
Add(T, v) ==
    LET size == size_of(T)
        align == align_of(T)
        first == cursor < size
    IN  \E b1 \in IF first THEN AllocChoices(storage, GrowLen(storage, size))
                  ELSE {storage.base} :
          LET g1 == IF first THEN Grow(storage, size, b1)
                    ELSE [storage |-> storage, cursor |-> cursor]
              c1 == AlignDown(g1.cursor - size, align)
              second == c1 < g1.storage.base
          IN  \E b2 \in IF second
                        THEN AllocChoices(g1.storage, GrowLen(g1.storage, size))
                        ELSE {g1.storage.base} :
                LET g2 == IF second THEN Grow(g1.storage, size, b2) ELSE g1
                    c2 == IF second THEN AlignDown(g2.cursor - size, align) ELSE c1
                IN  /\ max_align' = Max(max_align, align)
                    /\ cursor' = c2
                    /\ storage' = [g2.storage EXCEPT !.cells =
                                     @ \cup {[at |-> c2, ty |-> T, val |-> v]}]
                    /\ info' = Append(info, [ty |-> T, ptr |-> c2])
                    /\ staged' = Append(staged, [ty |-> T, moved |-> 0, dropped |-> 0])
                    /\ pending' = Append(pending, v)
                    /\ UNCHANGED <<ids, built>>

\* the orders sort_unstable_by may leave the entries in: sorted by the type
\* descriptor, entries of equal type in any order
SortedBy(s) ==
    {t \in [DOMAIN s -> Range(s)] :
        /\ \A i, j \in DOMAIN t : i # j => t[i] # t[j]
        /\ \A i, j \in DOMAIN t : i < j => ~TypeInfoLess(t[j].ty, t[i].ty)}

\* build that does not sort the entries
BuildUnsorted ==
    /\ ~built
    /\ info' = info
    /\ ids' = [i \in DOMAIN info |-> info[i].ty]
    /\ built' = TRUE
    /\ UNCHANGED <<storage, cursor, max_align, staged, pending>>

\* EntityBuilder::build
Build ==
    /\ ~built
    /\ \E sorted \in SortedBy(info) :
          /\ info' = sorted
          /\ ids' = [i \in DOMAIN sorted |-> sorted[i].ty]
    /\ built' = TRUE
    /\ UNCHANGED <<storage, cursor, max_align, staged, pending>>

\* What a read of a T through a recorded pointer may find: the value staged
\* at that address of the arena, if one of that type is there; a pointer into
\* a freed region, or to bytes that hold no T, is undefined behaviour: some T
\* staged earlier whose bytes are still there, or other bytes.
ReadStaged(entry) ==
    IF \E c \in storage.cells : c.at = entry.ptr /\ c.ty = entry.ty
    THEN {c.val : c \in {x \in storage.cells : x.at = entry.ptr /\ x.ty = entry.ty}}
    ELSE {Garbage} \cup {v \in DOMAIN staged : staged[v].ty = entry.ty}

\* one value read per entry of info.drain(..)
DrainReads ==
    {r \in [DOMAIN info -> {Garbage} \cup DOMAIN staged] :
        \A i \in DOMAIN info : r[i] \in ReadStaged(info[i])}

\* how many entries read the value v
Times(r, v) == Cardinality({i \in DOMAIN r : r[i] = v})

\* the arena once the entries are drained: the values read through them have
\* left it
Drained(r) ==
    [storage EXCEPT !.cells =
        {c \in @ : ~\E i \in DOMAIN info :
                      c.at = info[i].ptr /\ c.ty = info[i].ty /\ c.val = r[i]}]

\* BuiltEntity::store: put_dynamic for each entry, in order; the result maps
\* each type to the value its column ends up with
RECURSIVE DynamicWrite(_, _, _)
DynamicWrite(data, r, i) ==
    IF i > Len(info) THEN data
    ELSE DynamicWrite([data EXCEPT ![info[i].ty] = r[i]], r, i + 1)
DynamicStore(r) ==
    DynamicWrite([t \in {info[i].ty : i \in DOMAIN info} |-> Garbage], r, 1)

\* what the caller added to the bundle: the values added since the last drain
Added == [i \in DOMAIN pending |-> [ty |-> staged[pending[i]].ty, val |-> pending[i]]]

\* World::spawn(builder.build()): with_ids gives the key, type_info the
\* descriptors, store drains the entries into the row; the bundle is dropped
\* at the end of store with the entry list already empty.
SpawnBuilt ==
    /\ built
    /\ \E r \in DrainReads :
          /\ SpawnWith(ids, [i \in DOMAIN info |-> info[i].ty], DynamicStore(r), Added)
          /\ staged' = [v \in DOMAIN staged |->
                          [staged[v] EXCEPT !.moved = @ + Times(r, v)]]
          /\ storage' = Drained(r)
    /\ info' = <<>>
    /\ pending' = <<>>
    /\ built' = FALSE
    /\ UNCHANGED <<cursor, max_align, ids>>

\* a drop that walks the entry list without draining it
DropBuiltKeepsEntries ==
    /\ built
    /\ \E r \in DrainReads :
          /\ staged' = [v \in DOMAIN staged |->
                          [staged[v] EXCEPT !.dropped = @ + Times(r, v)]]
          /\ storage' = Drained(r)
    /\ pending' = <<>>
    /\ built' = FALSE
    /\ UNCHANGED <<info, cursor, max_align, ids>>

\* Drop for BuiltEntity, the bundle discarded unspawned
DropBuilt ==
    /\ built
    /\ \E r \in DrainReads :
          /\ staged' = [v \in DOMAIN staged |->
                          [staged[v] EXCEPT !.dropped = @ + Times(r, v)]]
          /\ storage' = Drained(r)
    /\ info' = <<>>
    /\ pending' = <<>>
    /\ built' = FALSE
    /\ UNCHANGED <<cursor, max_align, ids>>

DoAdd ==
    /\ ~built
    /\ Len(staged) < MaxAdds
    /\ \E T \in Types : Add(T, Len(staged) + 1)
    /\ UNCHANGED <<worldVars, histVars>>
DoBuild == info # <<>> /\ Build /\ UNCHANGED <<worldVars, histVars>>
DoSpawnBuilt == SpawnBuilt
DoDropBuilt == DropBuilt /\ UNCHANGED <<worldVars, histVars>>
DoGetBuilt ==
    /\ \E entity \in Handles, T \in Types : Get(entity, T)
    /\ UNCHANGED builderVars

NextBuilder == DoAdd \/ DoBuild \/ DoSpawnBuilt \/ DoDropBuilt \/ DoGetBuilt

SpecBuilder == Init /\ [][NextBuilder]_vars

\* ---- what the callers know about a handle -------------------------------
\* the spawn call that returned handle e (the latest one, should two agree)
SpawnRecord(e) ==
    spawned[CHOOSE n \in DOMAIN spawned :
              /\ spawned[n].e = e
              /\ \A m \in DOMAIN spawned : spawned[m].e = e => m <= n]
\* the component types e was spawned with
SigOf(e) == Range(elements(SpawnRecord(e).components))
\* the value of type T passed at e's spawn
SpawnValue(e, T) ==
    (CHOOSE c \in Range(SpawnRecord(e).components) : c.ty = T).val
\* ids freed by a successful despawn and bound to no live handle
FreedIds == {d.e.id : d \in despawned} \ {h.id : h \in Live}
\* the sets of component types spawned so far
TypeSetsSpawned == {Range(elements(spawned[n].components)) : n \in DOMAIN spawned}

\* ---- claims about World ------------------------------------------------

\* C1: every handle returned by spawn and not yet successfully despawned
\* resolves via get, for each component type it was spawned with, to exactly
\* the value passed at its spawn (also when more than one archetype exists).
Claim_C1 ==
    (ret.op = "get" /\ ret.e \in Live /\ ret.ty \in SigOf(ret.e))
        => (ret.ok /\ ret.val = SpawnValue(ret.e, ret.ty))

\* C2: despawn is idempotent: for a handle returned by spawn, despawn returns
\* false only once it has returned true for that handle (so the first call
\* returns true), and it returns true for a handle at most once (so every
\* later call returns false), whatever calls are interleaved.
Thm_C2 ==
    /\ (ret.op = "despawn" /\ ~ret.ok) => ret.e \in Dead
    /\ \A d \in despawned : d.times = 1

\* a second despawn of a handle was refused after another spawn and another
\* successful despawn had been interleaved
Witness_C2 ==
    /\ ret.op = "despawn" /\ ~ret.ok /\ ret.e \in Dead
    /\ \E d \in despawned : d.e = ret.e /\ d.n < Len(spawned)
    /\ Cardinality(despawned) >= 2

Claim_C4 ==
    (/\ Len(archetypes) = 1 /\ Dead # {}
     /\ ret.op = "get" /\ ret.e \in Live /\ ret.ty \in SigOf(ret.e))
        => (ret.ok /\ ret.val = SpawnValue(ret.e, ret.ty))

\* C5: tuple bundles that supply the same set of component types in different
\* orders land in the same archetype: there are no more archetypes than
\* distinct sets of component types spawned.
Claim_C5 == Len(archetypes) <= Cardinality(TypeSetsSpawned)

\* C7: get and get_mut on a live handle for a component type that is not
\* part of the signature the entity was spawned with return absent.
Claim_C7 ==
    (ret.op \in {"get", "get_mut"} /\ ret.e \in Live /\ ret.ty \notin SigOf(ret.e))
        => ~ret.ok

\* C10: freed ids are reused LIFO: if some id has been freed and not reused,
\* spawn returns a freed id -- the one just freed when the call before was
\* that despawn -- with the despawned handle's generation plus one, and the
\* entity table does not grow; otherwise spawn allocates a fresh id.
Claim_C10 ==
    [][\A sig \in TupleSigs :
         Spawn(TupleBundle(sig, Len(spawned) + 1)) =>
            IF FreedIds # {}
            THEN /\ ret'.e.id \in FreedIds
                 /\ \E d \in despawned :
                       /\ d.e.id = ret'.e.id
                       /\ ret'.e.generation = d.e.generation + 1
                 /\ (ret.op = "despawn" /\ ret.ok) => ret'.e.id = ret.e.id
                 /\ Len(entities') = Len(entities)
            ELSE /\ ret'.e.id = Len(entities)
                 /\ ret'.e.generation = 0
                 /\ Len(entities') = Len(entities) + 1]_vars

\* ---- claims about EntityBuilder -----------------------------------------
\* how often type T occurs in a sequence of types
Count(tys, T) == Cardinality({i \in DOMAIN tys : tys[i] = T})
AddedTypes == [i \in DOMAIN Added |-> Added[i].ty]
\* no type occurs twice among the components
DistinctTypes(components) ==
    \A i, j \in DOMAIN components : components[i].ty = components[j].ty => i = j
\* the entry addresses, in the arena as it is now, the value v
Addresses(entry, v) ==
    /\ storage.base <= entry.ptr
    /\ entry.ptr + size_of(entry.ty) <= storage.base + storage.len
    /\ [at |-> entry.ptr, ty |-> entry.ty, val |-> v] \in storage.cells

\* C6: the type-identity sequence build() exposes depends only on the types
\* added, not on the order of the add calls: it is the added types sorted by
\* the canonical type order, and the id list has one id per recorded entry,
\* in the order of the entries.
Thm_C6 ==
    built =>
        /\ Len(ids) = Len(info)
        /\ \A i \in DOMAIN ids : ids[i] = info[i].ty
        /\ \A i, j \in DOMAIN ids : i < j => ~TypeInfoLess(ids[j], ids[i])
        /\ \A T \in Types : Count(ids, T) = Count(AddedTypes, T)

\* a bundle was built from adds made in another order than the canonical one
Witness_C6 ==
    /\ built
    /\ Len(ids) >= 2
    /\ ids # AddedTypes
    /\ \E i, j \in DOMAIN ids : ids[i] # ids[j]

\* C8: builder round trip: for values of distinct types added to a builder,
\* also when the arena reallocates after earlier values were staged, every
\* recorded entry addresses the bytes of its own value, and the entity
\* spawned from the built bundle resolves via get to each added value.  (One
\* archetype only, so that every entity's meta names its archetype.)
Claim_C8 ==
    /\ DistinctTypes(Added) =>
          \A i \in DOMAIN info :
             \E k \in DOMAIN Added :
                Added[k].ty = info[i].ty /\ Addresses(info[i], Added[k].val)
    /\ (/\ ret.op = "get" /\ Len(archetypes) = 1
        /\ DistinctTypes(SpawnRecord(ret.e).components)
        /\ ret.ty \in SigOf(ret.e))
          => (ret.ok /\ ret.val = SpawnValue(ret.e, ret.ty))

\* C9: exactly-once ownership of staged values: every value staged in a
\* bundle that was consumed by spawn or discarded was moved into a row or
\* destructed in place, exactly once in all; a value still staged was
\* neither.
Claim_C9 ==
    \A v \in DOMAIN staged :
        IF v \in Range(pending)
        THEN staged[v].moved = 0 /\ staged[v].dropped = 0
        ELSE staged[v].moved + staged[v].dropped = 1

\* C11: despawn, get and get_mut called with a handle this World never
\* issued, in particular one whose id is at or beyond the number of ids
\* allocated, return false / absent without a fault and leave the World as
\* it was.
Claim_C11 ==
    [][\A entity \in ForeignHandles :
          (Despawn(entity) \/ \E T \in GetTypes : Get(entity, T) \/ GetMut(entity, T))
             => /\ ret'.op \in {"despawn", "get", "get_mut"}
                /\ ~ret'.ok
                /\ UNCHANGED worldVars]_vars

\* C15: a despawn that returns false changes nothing in the World (metas,
\* free list, registry, archetypes); get and get_mut with a stale handle
\* change nothing either.
Thm_C15 ==
    [][/\ (ret'.op = "despawn" /\ ~ret'.ok) => UNCHANGED worldVars
       /\ (ret'.op \in {"get", "get_mut"} /\ ret'.e \in Dead) => UNCHANGED worldVars]_vars

\* a despawn of a stale handle has returned false with entities still alive
Witness_C15 ==
    /\ ret.op = "despawn" /\ ~ret.ok /\ ret.e \in Dead
    /\ Live # {}

\* C12: the builder stays usable after a built bundle was spawned or
\* discarded: its entry list is then empty, the arena is never shortened,
\* and the entries and the type ids of a following build describe exactly
\* the components added since, none left over from the bundle before.
Thm_C12 ==
    /\ [](/\ Len(info) = Len(pending)
          /\ \A T \in Types :
                Count([i \in DOMAIN info |-> info[i].ty], T) = Count(AddedTypes, T)
          /\ built => /\ Len(ids) = Len(pending)
                      /\ \A T \in Types : Count(ids, T) = Count(AddedTypes, T))
    /\ [][storage'.len >= storage.len]_vars

\* a second bundle was built after the first was spawned or discarded
Witness_C12 ==
    /\ built
    /\ pending # <<>>
    /\ Len(staged) > Len(pending)
    /\ storage.len >= MinArenaLen

\* C13: after spawn returns e, the meta of e.id names the registry index of
\* the archetype keyed by the bundle's type sequence and the row allocate
\* returned, also when that archetype is not the first one created.
Claim_C13 ==
    ret.op = "spawn" =>
        LET key == elements(Last(spawned).components)
            meta == entities[ret.e.id + 1]
        IN  /\ key \in DOMAIN archetype_index
            /\ meta.archetype = archetype_index[key]
            /\ meta.index = Len(archetypes[archetype_index[key] + 1].rows) - 1

\* C14: for every live entity the archetype its meta names has more rows
\* than the meta's row index and that row's entity is the entity's id; the
\* rows of every archetype list exactly its live entities, each once.
Claim_C14 ==
    /\ \A e \in Live :
          LET meta == entities[e.id + 1]
          IN  /\ meta.archetype < Len(archetypes)
              /\ meta.index < Len(archetypes[meta.archetype + 1].rows)
              /\ archetypes[meta.archetype + 1].rows[meta.index + 1].entity = e.id
    /\ \A k \in DOMAIN archetypes :
          LET rows == archetypes[k].rows
          IN  /\ \A r1, r2 \in DOMAIN rows : rows[r1].entity = rows[r2].entity => r1 = r2
              /\ \A r \in DOMAIN rows :
                    \E e \in Live : /\ e.id = rows[r].entity
                                    /\ entities[e.id + 1].archetype = k - 1

\* C16: the registry maps each type-identity sequence ever spawned to one
\* archetype index, distinct sequences to distinct indices, the indices
\* being exactly 0..n-1 for n archetypes, each archetype holding the columns
\* of its key; no spawn with a known key and no despawn adds, removes or
\* re-keys an archetype.
Thm_C16 ==
    /\ DOMAIN archetype_index = {elements(spawned[n].components) : n \in DOMAIN spawned}
    /\ \A k1, k2 \in DOMAIN archetype_index :
          archetype_index[k1] = archetype_index[k2] => k1 = k2
    /\ {archetype_index[k] : k \in DOMAIN archetype_index} = 0..(Len(archetypes) - 1)
    /\ \A k \in DOMAIN archetype_index : archetypes[archetype_index[k] + 1].types = k

\* a spawn with a key already registered, after a despawn, with two
\* archetypes in the registry
Witness_C16 ==
    /\ ret.op = "spawn"
    /\ Len(archetypes) = 2
    /\ Len(spawned) = 3
    /\ \E n \in 1..2 :
          elements(spawned[n].components) = elements(spawned[3].components)
    /\ Dead # {}

\* the number of times despawn has returned true for a handle of this id
RECURSIVE SumTimes(_)
SumTimes(S) ==
    IF S = {} THEN 0
    ELSE LET d == CHOOSE x \in S : TRUE IN d.times + SumTimes(S \ {d})
DespawnCount(id) == SumTimes({d \in despawned : d.e.id = id})

\* C17: the generation stored for an id starts at 0 and equals the number of
\* successful despawns of that id, whatever spawns, refused despawns and
\* reads are interleaved; a handle is valid exactly when the generation
\* stored for its id equals its own.
Thm_C17 ==
    /\ \A i \in DOMAIN entities : entities[i].generation = DespawnCount(i - 1)
    /\ \A h \in Handles :
          h \in Live <=> entities[h.id + 1].generation = h.generation

\* a read through a stale handle after a later spawn: one id despawned once,
\* another never
Witness_C17 ==
    /\ ret.op \in {"get", "get_mut"} /\ ret.e \in Dead
    /\ \E i, j \in DOMAIN entities :
          entities[i].generation = 1 /\ entities[j].generation = 0
    /\ \E n \in DOMAIN spawned, d \in despawned : d.n < n

\* ---- further claims about EntityBuilder --------------------------------
IsPowerOfTwo(n) == n >= 1 /\ next_power_of_two(n) = n

\* C18: whenever add reallocates the arena, the new length is a power of
\* two, at least 64, at least twice the previous length and at least the
\* previous length plus the size of the value; every byte staged before
\* keeps its distance from the end of the arena; and the cursor leaves room
\* for the value at its alignment at or above the new base.
Thm_C18 ==
    [][storage'.len # storage.len =>
          LET T == Last(info').ty
              end == storage.base + storage.len
              new_end == storage'.base + storage'.len
          IN  /\ IsPowerOfTwo(storage'.len)
              /\ storage'.len >= MinArenaLen
              /\ storage'.len >= 2 * storage.len
              /\ storage'.len >= storage.len + size_of(T)
              /\ \A c \in storage.cells :
                    \E d \in storage'.cells :
                       d.ty = c.ty /\ d.val = c.val /\ new_end - d.at = end - c.at
              /\ cursor' >= storage'.base
              /\ cursor' % align_of(T) = 0
              /\ cursor' + size_of(T) <= new_end - storage.len]_vars

\* the arena was reallocated with values staged in it
Witness_C18 ==
    /\ storage.len > MinArenaLen
    /\ Cardinality(storage.cells) >= 2
    /\ ~built

\* C19: the type sequence an entity is stored under holds no type twice,
\* also when the bundle was made by adding two values of one type; and the
\* values of such a bundle are each moved into a row or destructed exactly
\* once.
Claim_C19 ==
    /\ \A key \in DOMAIN archetype_index :
          \A i, j \in DOMAIN key : key[i] = key[j] => i = j
    /\ \A k \in DOMAIN archetypes :
          \A i, j \in DOMAIN archetypes[k].types :
             archetypes[k].types[i] = archetypes[k].types[j] => i = j
    /\ \A n \in DOMAIN spawned :
          ~DistinctTypes(spawned[n].components) =>
             \A c \in Range(spawned[n].components) :
                staged[c.val].moved + staged[c.val].dropped = 1

\* C20: spawn never returns a handle equal, as an (id, generation) pair, to
\* one an earlier spawn returned; so no two live entities share a handle.
Thm_C20 ==
    \A n, m \in DOMAIN spawned : spawned[n].e = spawned[m].e => n = m

\* a third handle was issued after an earlier one was despawned
Witness_C20 ==
    /\ ret.op = "spawn"
    /\ Len(spawned) = 3
    /\ ret.e \in Live
    /\ \E d \in despawned : d.n < 3

====
